---- MODULE Spec2Model ----
(***************************************************************************)
(* Helios task orchestration and resilience engine.                        *)
(*                                                                         *)
(*  - WorkflowResilienceManager.execute_with_resilience (retry, backoff,   *)
(*    dead-letter queue), run as asyncio tasks on one event loop;          *)
(*  - AutonomousWorkflow.run_autonomous_workflow (seven-stage pipeline);   *)
(*  - TokenBudgetManager.select_model / record_usage (tier selection).     *)
(***************************************************************************)
EXTENDS Integers, Sequences, FiniteSets, TLC

\* ------------------------------------------------------------------ bounds
Jobs == {"j1", "j2"}
\* largest max_retries of a job that runs alone
MaxRetriesBound == 7
\* largest max_retries of jobs that run concurrently
MaxConcRetries == 2
\* number of execute_with_resilience calls made on one job
MaxCalls == 2
\* str(e) of the exceptions a unit of work raises
Errors == {"timeout", "bad_output"}

Min(a, b) == IF a < b THEN a ELSE b
Max(a, b) == IF a > b THEN a ELSE b

\* ---------------------------------------------------------------- variables
VARIABLES
    job,            \* WorkflowJob fields, per job
    pc,             \* position of each job's execute_with_resilience task
    loop_owner,     \* the task the event loop's thread is executing, or "none"
    calls,          \* execute_with_resilience calls begun on the job
    results,        \* outcomes of the unit of work in the current call
    invoked,        \* invocations of the unit of work over all calls
    sleeps,         \* time.sleep durations of the current call, in order
    outcome,        \* what the current call returned (or raised)
    publisher,      \* self.publisher is set (Pub/Sub available)
    dlq_topic,      \* messages published on the DLQ topic
    dlq_data,       \* the data of each published message, as serialized
    dlq_calls,      \* _send_to_dlq calls, per job
    dlq_result,     \* how the last _send_to_dlq of the job ended
    active          \* the jobs submitted in this run

res_vars == <<job, pc, loop_owner, calls, results, invoked, sleeps, outcome,
              publisher, dlq_topic, dlq_data,
                   dlq_calls, dlq_result, active>>

VARIABLES
    p_pc,           \* position of run_autonomous_workflow
    p_stage,        \* the step (1..7) the run is at
    p_attempt,      \* `attempt` of the step's for loop (0-based)
    p_inflight,     \* <<step, attempt>> pairs whose await has not returned
    p_attempts,     \* attempts started, per step
    p_failures,     \* attempts that raised, per step
    p_outputs,      \* value each step returned
    p_inputs,       \* arguments the last attempt of each step was given
    p_started,      \* steps in the order of their first attempt
    p_sleeps,       \* asyncio.sleep calls: <<step, seconds>>
    p_published,    \* products published on Printify
    p_result        \* the WorkflowResult returned

pipe_vars == <<p_pc, p_stage, p_attempt, p_inflight, p_attempts, p_failures,
               p_outputs, p_inputs, p_started, p_sleeps, p_published,
               p_result>>

VARIABLES
    daily_budgets,    \* TokenBudgetManager.daily_budgets
    current_usage,    \* TokenBudgetManager.current_usage
    daily_reset_time, \* TokenBudgetManager.daily_reset_time
    now,              \* time.time(), seconds since the manager was made
    selected,         \* the model the last select_model call returned
    sel_args          \* the arguments of the last select_model call

sel_vars == <<daily_budgets, current_usage, daily_reset_time, now, selected,
              sel_args>>

VARIABLES
    t_pc,           \* position of each process_hybrid_task call
    t_runs,         \* process_hybrid_task calls begun, per task
    t_model,        \* model_type of the call in progress
    t_result,       \* how the last call of the task ended
    rec_log,        \* record_usage calls since the last reset, per model and
                    \* units
    over_n,         \* record_usage calls on a model since its usage reached
                    \* 90% of the budget
    over_units      \* units recorded by those calls

task_vars == <<t_pc, t_runs, t_model, t_result, rec_log, over_n, over_units>>

VARIABLES
    config,             \* the HeliosConfig of the engine and the agent
    ai_result,          \* what _execute_ai_analysis returned
    rule_set,           \* the rule_set argument of validate
    e_pc,               \* "input", "validated", "raised" or "gated"
    validation_result,  \* what validate returned
    quality_gates       \* what _apply_quality_gates returned

eval_vars == <<config, ai_result, rule_set, e_pc, validation_result,
               quality_gates>>

VARIABLES
    h_pc,               \* position of one process_hybrid_task call
    inference_calls,    \* calls of _execute_ai_analysis the call has made
    model_type,         \* the model select_model returned to the call
    hybrid_result       \* the HybridResult the call returned

proc_vars == <<h_pc, inference_calls, model_type, hybrid_result>>

\* what the resilience manager's actions leave alone
res_frame == <<pipe_vars, sel_vars, task_vars, eval_vars, proc_vars>>
\* what the pipeline's actions leave alone
pipe_frame == <<res_vars, sel_vars, task_vars, eval_vars, proc_vars>>
\* what the budget manager's actions leave alone
sel_frame == <<res_vars, pipe_vars, task_vars, eval_vars, proc_vars>>
\* what process_hybrid_task leaves alone
task_frame == <<res_vars, pipe_vars, eval_vars, proc_vars>>
\* what the rules engine and the quality gates leave alone
eval_frame == <<res_vars, pipe_vars, sel_vars, task_vars, proc_vars>>
\* what one process_hybrid_task call leaves alone
proc_frame == <<res_vars, pipe_vars, task_vars>>

\* ------------------------------------------------- WorkflowJob and outcomes
NewJob(n) ==
    [max_retries |-> n, current_retries |-> 0, error_history |-> <<>>,
     status |-> "pending"]

NoOutcome ==
    [kind |-> "none", success |-> FALSE, job_id |-> "", error |-> "",
     retry_count |-> 0, dlq_message_id |-> ""]

Raised(j) ==
    [kind |-> "raised", success |-> FALSE, job_id |-> j, error |-> "",
     retry_count |-> 0, dlq_message_id |-> ""]

\* reports the number of attempts instead of the number of retries
SuccessOutcome_CountsAttempts(j, jb) ==
    [kind |-> "returned", success |-> TRUE, job_id |-> j, error |-> "",
     retry_count |-> jb.current_retries + 1, dlq_message_id |-> ""]

\* the dict returned after a successful attempt
SuccessOutcome(j, jb) ==
    [kind |-> "returned", success |-> TRUE, job_id |-> j, error |-> "",
     retry_count |-> jb.current_retries, dlq_message_id |-> ""]

\* the dict returned when retries are exhausted
DlqOutcome(j, jb) ==
    [kind |-> "returned", success |-> FALSE, job_id |-> j,
     error |-> "Job failed all retries and sent to DLQ",
     retry_count |-> jb.current_retries, dlq_message_id |-> j]

\* the dict returned after the while loop is left
LoopExitOutcome(j, jb) ==
    [kind |-> "returned", success |-> FALSE, job_id |-> j,
     error |-> "Unexpected retry loop exit",
     retry_count |-> jb.current_retries, dlq_message_id |-> ""]

\* one more round at the limit
LoopGuard_Inclusive(jb) == jb.current_retries <= jb.max_retries

\* while job.current_retries < job.max_retries
LoopGuard(jb) == jb.current_retries < jb.max_retries

\* the entry is appended before the counter is incremented
RecordFailure_AppendsFirst(jb, e) ==
    [jb EXCEPT !.current_retries = jb.current_retries + 1,
               !.error_history = Append(jb.error_history,
                    [attempt |-> jb.current_retries, error |-> e])]

\* except Exception as e: current_retries += 1; error_history.append(...)
RecordFailure(jb, e) ==
    [jb EXCEPT !.current_retries = jb.current_retries + 1,
               !.error_history = Append(jb.error_history,
                    [attempt |-> jb.current_retries + 1, error |-> e])]

\* if job.current_retries >= job.max_retries
RetriesExhausted(jb) == jb.current_retries >= jb.max_retries

\* backoff without the 60-second ceiling
WaitTime_NoCap(retries) == 2 ^ retries

\* wait_time = min(2 ** job.current_retries, 60)
WaitTime(retries) == Min(2 ^ retries, 60)

\* DLQMessage as serialized for the topic
DlqMessage(j, jb, e) ==
    [job_id |-> j, failure_reason |-> e, retry_count |-> jb.current_retries,
     error_history |-> jb.error_history]

\* JSON text, as the sequence of its scalar tokens
JsonString(s) == [type |-> "string", text |-> s, value |-> 0]
JsonNumber(n) == [type |-> "number", text |-> "", value |-> n]

\* the entries of context.error_history, in list order
RECURSIVE HistoryData(_)
HistoryData(history) ==
    IF history = <<>> THEN <<>>
    ELSE <<JsonNumber(Head(history).attempt), JsonString(Head(history).error)>>
         \o HistoryData(Tail(history))

\* retry_count written as text, as in the publish attributes
MessageData_CountAsText(msg) ==
    <<JsonString(msg.job_id), JsonString(msg.failure_reason),
      JsonString(ToString(msg.retry_count))>>
    \o HistoryData(msg.error_history)

\* message_data = json.dumps({...}, default=str)
MessageData(msg) ==
    <<JsonString(msg.job_id), JsonString(msg.failure_reason),
      JsonNumber(msg.retry_count)>>
    \o HistoryData(msg.error_history)

\* json.loads(message_data): strings come back as strings, numbers as numbers
JsonLoads(data) ==
    [job_id |-> data[1].text,
     failure_reason |-> data[2].text,
     retry_count |-> data[3].value,
     error_history |->
        [i \in 1..((Len(data) - 3) \div 2) |->
            [attempt |-> data[2 + 2 * i].value, error |-> data[3 + 2 * i].text]]]

\* a publish error that is not caught inside _send_to_dlq
SendToDlqResult_Reraise(pub, writeOk) ==
    IF ~pub THEN "unavailable"
    ELSE IF writeOk THEN "sent" ELSE "raise"

\* _send_to_dlq: "unavailable" and "write_failed" return None, "sent" returns
\* the message id, "raise" lets the exception out
SendToDlqResult(pub, writeOk) ==
    IF ~pub THEN "unavailable"
    ELSE IF writeOk THEN "sent" ELSE "write_failed"

\* a task runs only while the event loop's thread is not inside another task
CanRun(j) == loop_owner \in {"none", j}

\* ------------------------------------------------------------------ actions
\* top of the while loop: leave it, or start an attempt and await the unit of
\* work (the await releases the event loop)
LoopTop(j, jb) ==
    IF LoopGuard(jb)
    THEN /\ job' = [job EXCEPT ![j] = [jb EXCEPT !.status = "running"]]
         /\ pc' = [pc EXCEPT ![j] = "awaiting"]
         /\ invoked' = [invoked EXCEPT ![j] = @ + 1]
         /\ outcome' = [outcome EXCEPT ![j] = NoOutcome]
    ELSE /\ job' = [job EXCEPT ![j] = [jb EXCEPT !.status = "failed"]]
         /\ pc' = [pc EXCEPT ![j] = "returned"]
         /\ invoked' = invoked
         /\ outcome' = [outcome EXCEPT ![j] = LoopExitOutcome(j, jb)]

\* execute_with_resilience(job, execution_func) is called and its task starts
Begin(j) ==
    /\ j \in active
    /\ pc[j] \in {"idle", "returned"}
    /\ calls[j] < MaxCalls
    /\ CanRun(j)
    /\ calls' = [calls EXCEPT ![j] = @ + 1]
    /\ results' = [results EXCEPT ![j] = <<>>]
    /\ sleeps' = [sleeps EXCEPT ![j] = <<>>]
    /\ dlq_result' = [dlq_result EXCEPT ![j] = "none"]
    /\ LoopTop(j, job[j])
    /\ loop_owner' = "none"
    /\ UNCHANGED <<publisher, dlq_topic, dlq_data,
                   dlq_calls, active>>
    /\ UNCHANGED res_frame

\* result = await execution_func(...) returns: status completed, return
UnitSucceeds(j) ==
    /\ pc[j] = "awaiting"
    /\ CanRun(j)
    /\ results' = [results EXCEPT ![j] = Append(@, TRUE)]
    /\ job' = [job EXCEPT ![j].status = "completed"]
    /\ outcome' = [outcome EXCEPT ![j] = SuccessOutcome(j, job[j])]
    /\ pc' = [pc EXCEPT ![j] = "returned"]
    /\ loop_owner' = "none"
    /\ UNCHANGED <<calls, invoked, sleeps, publisher, dlq_topic, dlq_data,
                   dlq_calls,
                   dlq_result, active>>
    /\ UNCHANGED res_frame

\* await execution_func(...) raises e: record it, then either go on to
\* _send_to_dlq or enter time.sleep, which keeps the event loop's thread
UnitFails(j, e) ==
    /\ pc[j] = "awaiting"
    /\ CanRun(j)
    /\ results' = [results EXCEPT ![j] = Append(@, FALSE)]
    /\ LET jb == RecordFailure(job[j], e) IN
         /\ job' = [job EXCEPT ![j] = jb]
         /\ IF RetriesExhausted(jb)
            THEN /\ pc' = [pc EXCEPT ![j] = "dlq"]
                 /\ sleeps' = sleeps
            ELSE /\ pc' = [pc EXCEPT ![j] = "sleep"]
                 /\ sleeps' = [sleeps EXCEPT ![j] =
                                  Append(@, WaitTime(jb.current_retries))]
    /\ loop_owner' = j
    /\ UNCHANGED <<calls, invoked, outcome, publisher, dlq_topic, dlq_data,
                   dlq_calls,
                   dlq_result, active>>
    /\ UNCHANGED res_frame

\* await self._send_to_dlq(job, e); job.status = "dlq"; return
SendToDlq(j) ==
    /\ pc[j] = "dlq"
    /\ CanRun(j)
    /\ \E writeOk \in BOOLEAN :
         LET r == SendToDlqResult(publisher, writeOk)
             e == job[j].error_history[Len(job[j].error_history)].error
         IN /\ dlq_result' = [dlq_result EXCEPT ![j] = r]
            /\ dlq_topic' = IF r = "sent"
                            THEN Append(dlq_topic, DlqMessage(j, job[j], e))
                            ELSE dlq_topic
            /\ dlq_data' = IF r = "sent"
                           THEN Append(dlq_data,
                                       MessageData(DlqMessage(j, job[j], e)))
                           ELSE dlq_data
            /\ IF r = "raise"
               THEN /\ job' = job
                    /\ outcome' = [outcome EXCEPT ![j] = Raised(j)]
               ELSE /\ job' = [job EXCEPT ![j].status = "dlq"]
                    /\ outcome' = [outcome EXCEPT ![j] = DlqOutcome(j, job[j])]
    /\ dlq_calls' = [dlq_calls EXCEPT ![j] = @ + 1]
    /\ pc' = [pc EXCEPT ![j] = "returned"]
    /\ loop_owner' = "none"
    /\ UNCHANGED <<calls, results, invoked, sleeps, publisher, active>>
    /\ UNCHANGED res_frame

\* time.sleep(wait_time) returns and the loop goes round
WakeUp(j) ==
    /\ pc[j] = "sleep"
    /\ CanRun(j)
    /\ LoopTop(j, job[j])
    /\ loop_owner' = "none"
    /\ UNCHANGED <<calls, results, sleeps, publisher, dlq_topic, dlq_data,
                   dlq_calls,
                   dlq_result, active>>
    /\ UNCHANGED res_frame

ResNext ==
    \E j \in Jobs :
        \/ Begin(j)
        \/ UnitSucceeds(j)
        \/ \E e \in Errors : UnitFails(j, e)
        \/ SendToDlq(j)
        \/ WakeUp(j)

\* state after create_workflow_job for the jobs of `act`, retries up to `bound`
ResInit(act, bound) ==
    /\ active = act
    /\ job \in [Jobs -> {NewJob(n) : n \in 0..bound}]
    /\ \A j \in Jobs \ act : job[j] = NewJob(0)
    /\ pc = [j \in Jobs |-> "idle"]
    /\ loop_owner = "none"
    /\ calls = [j \in Jobs |-> 0]
    /\ results = [j \in Jobs |-> <<>>]
    /\ invoked = [j \in Jobs |-> 0]
    /\ sleeps = [j \in Jobs |-> <<>>]
    /\ outcome = [j \in Jobs |-> NoOutcome]
    /\ publisher \in (IF act = {} THEN {FALSE} ELSE BOOLEAN)
    /\ dlq_topic = <<>>
    /\ dlq_data = <<>>
    /\ dlq_calls = [j \in Jobs |-> 0]
    /\ dlq_result = [j \in Jobs |-> "none"]

\* ------------------------------------------- AutonomousWorkflow (pipeline)
\* self.max_retries = 3
PipelineMaxRetries == 3
\* self.retry_delay = 5
RetryDelay == 5

Stages == 1..7
StageName(k) ==
    <<"discover-trend", "generate-design-concept", "select-product",
      "generate-image", "generate-marketing-copy", "publish-product",
      "log-results">>[k]

\* publish-product called without the marketing copy
StageInputs_DropsCopy(k) ==
    CASE k = 1 -> {}
      [] k = 2 -> {1}
      [] k = 3 -> {1, 2}
      [] k = 4 -> {2, 3}
      [] k = 5 -> {1, 2, 3}
      [] k = 6 -> {1, 3, 4}
      [] k = 7 -> {1, 3, 4, 5, 6}

\* the steps whose return values a step is called with
StageInputs(k) ==
    CASE k = 1 -> {}
      [] k = 2 -> {1}
      [] k = 3 -> {1, 2}
      [] k = 4 -> {2, 3}
      [] k = 5 -> {1, 2, 3}
      [] k = 6 -> {1, 3, 4, 5}
      [] k = 7 -> {1, 3, 4, 5, 6}

NoValue == [stage |-> 0, attempt |-> 0]
NoResult == [returned |-> FALSE, success |-> FALSE, errors |-> <<>>,
             published_product_id |-> NoValue]

\* WorkflowResult(success=True, ...)
SuccessResult(outs) ==
    [returned |-> TRUE, success |-> TRUE, errors |-> <<>>,
     published_product_id |-> outs[6]]

\* the failure result without errors.append(error_msg)
FailureResult_NoError(e) ==
    [returned |-> TRUE, success |-> FALSE, errors |-> <<>>,
     published_product_id |-> NoValue]

\* except Exception as e: errors.append(...); WorkflowResult(success=False, ...)
FailureResult(e) ==
    [returned |-> TRUE, success |-> FALSE, errors |-> <<e>>,
     published_product_id |-> NoValue]

\* the logging error reaches run_autonomous_workflow's except branch
LogFailureResult_Reraise(outs, e) == FailureResult(e)

\* except Exception as e: logger.warning(...); the run goes on to its return
LogFailureResult(outs, e) == SuccessResult(outs)

\* range(self.max_retries) still has a value for the loop variable
InRange(attempt) == attempt < PipelineMaxRetries

\* gives up one attempt early
RetriesRemain_OneShort(attempt) == attempt < PipelineMaxRetries - 2

\* if attempt < self.max_retries - 1: sleep, else: raise
RetriesRemain(attempt) == attempt < PipelineMaxRetries - 1

\* run_autonomous_workflow(trigger_source) is called
RunWorkflow ==
    /\ p_pc = "idle"
    /\ p_pc' = "ready"
    /\ p_stage' = 1
    /\ p_attempt' = 0
    /\ UNCHANGED <<p_inflight, p_attempts, p_failures, p_outputs, p_inputs,
                   p_started, p_sleeps, p_published, p_result>>
    /\ UNCHANGED pipe_frame

\* an attempt of the current step begins: the step's awaited call is made
\* with the values returned by earlier steps
StartAttempt ==
    /\ p_pc = "ready"
    /\ p_pc' = "running"
    /\ p_inflight' = p_inflight \cup {<<p_stage, p_attempt>>}
    /\ p_attempts' = [p_attempts EXCEPT ![p_stage] = @ + 1]
    /\ p_inputs' = [p_inputs EXCEPT ![p_stage] =
                       [i \in StageInputs(p_stage) |-> p_outputs[i]]]
    /\ p_started' = IF p_attempt = 0 THEN Append(p_started, p_stage)
                    ELSE p_started
    /\ UNCHANGED <<p_stage, p_attempt, p_failures, p_outputs, p_sleeps,
                   p_published, p_result>>
    /\ UNCHANGED pipe_frame

\* steps 1..6: the attempt returns a value and the next step is reached
AttemptSucceeds ==
    /\ p_pc = "running"
    /\ p_stage <= 6
    /\ LET v == [stage |-> p_stage, attempt |-> p_attempt + 1] IN
         /\ p_outputs' = [p_outputs EXCEPT ![p_stage] = v]
         /\ p_published' = IF p_stage = 6 THEN p_published \cup {v}
                           ELSE p_published
    /\ p_inflight' = p_inflight \ {<<p_stage, p_attempt>>}
    /\ p_stage' = p_stage + 1
    /\ p_attempt' = 0
    /\ p_pc' = "ready"
    /\ UNCHANGED <<p_attempts, p_failures, p_inputs, p_started, p_sleeps,
                   p_result>>
    /\ UNCHANGED pipe_frame

\* steps 1..6: the attempt raises; sleep before the next one, or re-raise to
\* run_autonomous_workflow, which returns the failure result
AttemptFails ==
    /\ p_pc = "running"
    /\ p_stage <= 6
    /\ p_failures' = [p_failures EXCEPT ![p_stage] = @ + 1]
    /\ p_inflight' = p_inflight \ {<<p_stage, p_attempt>>}
    /\ IF RetriesRemain(p_attempt)
       THEN /\ p_pc' = "sleeping"
            /\ p_sleeps' = Append(p_sleeps, <<p_stage, RetryDelay>>)
            /\ p_result' = p_result
       ELSE /\ p_pc' = "done"
            /\ p_sleeps' = p_sleeps
            /\ p_result' = FailureResult([stage |-> p_stage,
                                          attempt |-> p_attempt + 1])
    /\ UNCHANGED <<p_stage, p_attempt, p_attempts, p_outputs, p_inputs,
                   p_started, p_published>>
    /\ UNCHANGED pipe_frame

\* asyncio.sleep(self.retry_delay) returns and the for loop goes round; when
\* the range is used up the step returns None and the run raises ValueError
RetryAfterDelay ==
    /\ p_pc = "sleeping"
    /\ IF InRange(p_attempt + 1)
       THEN /\ p_pc' = "ready"
            /\ p_attempt' = p_attempt + 1
            /\ p_result' = p_result
       ELSE /\ p_pc' = "done"
            /\ p_attempt' = p_attempt
            /\ p_result' = FailureResult([stage |-> p_stage, attempt |-> 0])
    /\ UNCHANGED <<p_stage, p_inflight, p_attempts, p_failures, p_outputs,
                   p_inputs, p_started, p_sleeps, p_published>>
    /\ UNCHANGED pipe_frame

\* step 7: _log_workflow_results returns; the success result is returned
LogSucceeds ==
    /\ p_pc = "running"
    /\ p_stage = 7
    /\ p_outputs' = [p_outputs EXCEPT ![7] = [stage |-> 7, attempt |-> 1]]
    /\ p_inflight' = p_inflight \ {<<p_stage, p_attempt>>}
    /\ p_pc' = "done"
    /\ p_result' = SuccessResult(p_outputs)
    /\ UNCHANGED <<p_stage, p_attempt, p_attempts, p_failures, p_inputs,
                   p_started, p_sleeps, p_published>>
    /\ UNCHANGED pipe_frame

\* step 7: logging raises inside _log_workflow_results, which only warns;
\* the success result is returned
LogFails ==
    /\ p_pc = "running"
    /\ p_stage = 7
    /\ p_failures' = [p_failures EXCEPT ![7] = @ + 1]
    /\ p_inflight' = p_inflight \ {<<p_stage, p_attempt>>}
    /\ p_pc' = "done"
    /\ p_result' = LogFailureResult(p_outputs, [stage |-> 7, attempt |-> 1])
    /\ UNCHANGED <<p_stage, p_attempt, p_attempts, p_outputs, p_inputs,
                   p_started, p_sleeps, p_published>>
    /\ UNCHANGED pipe_frame

PipeNext ==
    \/ RunWorkflow
    \/ StartAttempt
    \/ AttemptSucceeds
    \/ AttemptFails
    \/ RetryAfterDelay
    \/ LogSucceeds
    \/ LogFails

PipeInit ==
    /\ p_pc = "idle"
    /\ p_stage = 0
    /\ p_attempt = 0
    /\ p_inflight = {}
    /\ p_attempts = [k \in Stages |-> 0]
    /\ p_failures = [k \in Stages |-> 0]
    /\ p_outputs = [k \in Stages |-> NoValue]
    /\ p_inputs = [k \in Stages |-> <<>>]
    /\ p_started = <<>>
    /\ p_sleeps = <<>>
    /\ p_published = {}
    /\ p_result = NoResult

\* ------------------------------------------------------ TokenBudgetManager
\* AIModelType
Thinking == "gemini-2.5-flash-thinking"
FlashLite25 == "gemini-2.5-flash-lite"
FlashLite20 == "gemini-2.0-flash-lite"
Models == {Thinking, FlashLite25, FlashLite20}

\* TaskComplexity values
Basic == 1
Standard == 5
Strategic == 8
Critical == 10
\* task_complexity is an int: the four levels and the values next to the
\* two thresholds
Complexities == {Basic, Standard - 1, Standard, Strategic - 1, Strategic,
                 Critical}

\* daily budgets of the two lite models
FlashLite25Budget == 1000000
FlashLite20Budget == 2000000
\* values of config.ceo_thinking_budget
ThinkingBudgets == {500000, 1000000}
\* seconds after which the usage is reset
DaySeconds == 86400

\* total_tokens values a unit of work reports (0 is the default)
TokenAmounts == {0, 300000, 600000}
\* largest usage counter explored
MaxUsage == 1200000
\* the clock advances in steps of TickSeconds, MaxTicks times
TickSeconds == 43200
MaxTicks == 4

ZeroUsage == [m \in Models |-> 0]

\* the reset already made when exactly 24 hours have passed
ResetDue_AtDay(t, reset) == t - reset >= DaySeconds

\* if time.time() - self.daily_reset_time > 86400
ResetDue(t, reset) == t - reset > DaySeconds

\* no budget check at all
HasBudget_Unchecked(usage, budgets, m) == TRUE

\* the whole budget instead of 90% of it
HasBudget_FullBudget(usage, budgets, m) == usage[m] < budgets[m]

\* the threshold itself still counts as budget left
HasBudget_Inclusive(usage, budgets, m) == usage[m] * 10 <= budgets[m] * 9

\* current < limit * 0.9, in tenths
HasBudget(usage, budgets, m) == usage[m] * 10 < budgets[m] * 9

\* the if / elif / else of select_model, on the usage after any reset
SelectModel(usage, budgets, task_complexity, thinking_required) ==
    IF thinking_required /\ task_complexity >= 8
          /\ HasBudget(usage, budgets, Thinking)
    THEN Thinking
    ELSE IF task_complexity >= 5 /\ HasBudget(usage, budgets, FlashLite25)
    THEN FlashLite25
    ELSE FlashLite20

\* what select_model does to the manager
SelectCall(c, t) ==
    /\ LET due == ResetDue(now, daily_reset_time)
           usage == IF due THEN ZeroUsage ELSE current_usage
       IN /\ current_usage' = usage
          /\ daily_reset_time' = IF due THEN now ELSE daily_reset_time
          /\ selected' = SelectModel(usage, daily_budgets, c, t)
    /\ sel_args' = [complexity |-> c, thinking |-> t]
    /\ UNCHANGED <<daily_budgets, now>>

\* select_model(task_complexity, thinking_required)
Select(c, t) ==
    /\ SelectCall(c, t)
    /\ UNCHANGED sel_frame

\* the units are added twice
AddUsage_CountsTwice(current, tokens_used) == current + 2 * tokens_used

\* the new counter is what was recorded last
AddUsage_Overwrites(current, tokens_used) == tokens_used

\* self.current_usage.get(model, 0) + tokens_used
AddUsage(current, tokens_used) == current + tokens_used

\* what record_usage does to the manager
RecordCall(m, u) ==
    /\ current_usage[m] + u <= MaxUsage
    /\ current_usage' = [current_usage EXCEPT ![m] = AddUsage(@, u)]
    /\ UNCHANGED <<daily_budgets, daily_reset_time, now, selected, sel_args>>

\* record_usage(model, tokens_used)
RecordUsage(m, u) ==
    /\ RecordCall(m, u)
    /\ UNCHANGED sel_frame

\* time passes
Tick ==
    /\ now < MaxTicks * TickSeconds
    /\ now' = now + TickSeconds
    /\ UNCHANGED <<daily_budgets, current_usage, daily_reset_time, selected,
                   sel_args>>
    /\ UNCHANGED sel_frame

SelNext ==
    \/ \E c \in Complexities, t \in BOOLEAN : Select(c, t)
    \/ \E m \in Models, u \in TokenAmounts : RecordUsage(m, u)
    \/ Tick

\* TokenBudgetManager.__init__, config.ceo_thinking_budget taken from bs
SelInit(bs) ==
    /\ daily_budgets \in
          {[m \in Models |->
               CASE m = Thinking -> b
                 [] m = FlashLite25 -> FlashLite25Budget
                 [] m = FlashLite20 -> FlashLite20Budget] :
           b \in bs}
    /\ current_usage = ZeroUsage
    /\ daily_reset_time = 0
    /\ now = 0
    /\ selected = "none"
    /\ sel_args = [complexity |-> 0, thinking |-> FALSE]

\* ------------------------------------------ HybridAIBase.process_hybrid_task
\* concurrent callers of one agent, as tasks of one event loop
Tasks == {"t1", "t2"}
\* process_hybrid_task calls made on the agent, all callers together
MaxRuns == 3
\* task_complexity and task["thinking_required"] of the calls
TaskKinds == {[complexity |-> Critical, thinking |-> TRUE],
              [complexity |-> Standard, thinking |-> FALSE],
              [complexity |-> Basic, thinking |-> FALSE]}

RECURSIVE RunsOf(_, _)
RunsOf(runs, S) ==
    IF S = {} THEN 0
    ELSE LET t == CHOOSE x \in S : TRUE
         IN runs[t] + RunsOf(runs, S \ {t})

EmptyLog == [m \in Models |-> [u \in TokenAmounts |-> 0]]
NoneOver == [m \in Models |-> 0]

\* steps 1-3: select_model, get_hybrid_prompts, then the await of
\* _execute_ai_analysis, which lets other tasks run
TaskStart(t) ==
    /\ t_pc[t] = "idle"
    /\ RunsOf(t_runs, Tasks) < MaxRuns
    /\ \E k \in TaskKinds : SelectCall(k.complexity, k.thinking)
    /\ t_runs' = [t_runs EXCEPT ![t] = @ + 1]
    /\ t_model' = [t_model EXCEPT ![t] = selected']
    /\ t_pc' = [t_pc EXCEPT ![t] = "inference"]
    /\ t_result' = [t_result EXCEPT ![t] = "none"]
    /\ rec_log' = IF daily_reset_time' # daily_reset_time THEN EmptyLog
                  ELSE rec_log
    /\ over_n' = IF daily_reset_time' # daily_reset_time THEN NoneOver
                 ELSE over_n
    /\ over_units' = IF daily_reset_time' # daily_reset_time THEN NoneOver
                     ELSE over_units
    /\ UNCHANGED task_frame

\* steps 4-6 and the return: _execute_ai_analysis returned a result whose
\* usage_metadata has total_tokens = u; record_usage runs before any await
TaskFinish(t, u) ==
    /\ t_pc[t] = "inference"
    /\ LET m == t_model[t] IN
         /\ RecordCall(m, u)
         /\ rec_log' = [rec_log EXCEPT ![m][u] = @ + 1]
         /\ IF current_usage'[m] * 10 >= daily_budgets[m] * 9
            THEN /\ over_n' = [over_n EXCEPT ![m] = @ + 1]
                 /\ over_units' = [over_units EXCEPT ![m] = @ + u]
            ELSE /\ over_n' = [over_n EXCEPT ![m] = 0]
                 /\ over_units' = [over_units EXCEPT ![m] = 0]
    /\ t_pc' = [t_pc EXCEPT ![t] = "idle"]
    /\ t_result' = [t_result EXCEPT ![t] = "returned"]
    /\ UNCHANGED <<t_runs, t_model>>
    /\ UNCHANGED task_frame

\* the result has no usage_metadata attribute: nothing is recorded
TaskFinishUnmetered(t) ==
    /\ t_pc[t] = "inference"
    /\ t_pc' = [t_pc EXCEPT ![t] = "idle"]
    /\ t_result' = [t_result EXCEPT ![t] = "returned"]
    /\ UNCHANGED <<t_runs, t_model, rec_log, over_n, over_units>>
    /\ UNCHANGED sel_vars
    /\ UNCHANGED task_frame

\* _execute_ai_analysis raises: logged and re-raised, nothing is recorded
TaskRaises(t) ==
    /\ t_pc[t] = "inference"
    /\ t_pc' = [t_pc EXCEPT ![t] = "idle"]
    /\ t_result' = [t_result EXCEPT ![t] = "raised"]
    /\ UNCHANGED <<t_runs, t_model, rec_log, over_n, over_units>>
    /\ UNCHANGED sel_vars
    /\ UNCHANGED task_frame

\* time passes while tasks are in flight
TaskTick ==
    /\ now < MaxTicks * TickSeconds
    /\ now' = now + TickSeconds
    /\ UNCHANGED <<daily_budgets, current_usage, daily_reset_time, selected,
                   sel_args>>
    /\ UNCHANGED task_vars
    /\ UNCHANGED task_frame

TaskNext ==
    \/ \E t \in Tasks : TaskStart(t)
    \/ \E t \in Tasks, u \in TokenAmounts : TaskFinish(t, u)
    \/ \E t \in Tasks : TaskFinishUnmetered(t)
    \/ \E t \in Tasks : TaskRaises(t)
    \/ TaskTick

TaskInit ==
    /\ t_pc = [t \in Tasks |-> "idle"]
    /\ t_runs = [t \in Tasks |-> 0]
    /\ t_model = [t \in Tasks |-> "none"]
    /\ t_result = [t \in Tasks |-> "none"]
    /\ rec_log = EmptyLog
    /\ over_n = NoneOver
    /\ over_units = NoneOver

\* ------------------------------- BusinessRulesEngine and the quality gates
\* scores are counted in units of 1/ScoreUnit of a point, so that
\* 10.0 - (execution_time / 1000) / 30.0 is a whole number of units
ScoreUnit == 1000 * 30
Points(tenths) == tenths * (ScoreUnit \div 10)

\* opportunity_score, confidence_score and their minima are in tenths of a
\* point, confidence_level and profit_margin and their minima in hundredths,
\* max_execution_time in seconds
Configs == [min_opportunity_score : {50, 70},
            min_audience_confidence : {70},
            min_profit_margin : {30},
            max_execution_time : {300}]

\* a key or an attribute of the result: <<>> when it is missing, <<v>> when
\* it holds v
Opt(S) == {<<>>} \cup {<<v>> : v \in S}
\* dict.get(key, default) and getattr(obj, name, default)
Get(field, default) == IF field = <<>> THEN default ELSE field[1]

NoItems == [opportunity_score |-> <<>>, confidence_level |-> <<>>,
            profit_margin |-> <<>>, confidence_score |-> <<>>,
            execution_time_ms |-> <<>>, ethical_status |-> <<>>,
            copyright_status |-> <<>>]

\* the keys of a trend analysis
TrendItems ==
    {[NoItems EXCEPT !.opportunity_score = o, !.confidence_level = c,
                     !.profit_margin = p] :
        o \in Opt({40, 60, 80}), c \in Opt({69, 70}), p \in Opt({20, 50})}

\* the keys of a screened design
ContentItems ==
    {[NoItems EXCEPT !.ethical_status = <<e>>, !.copyright_status = <<c>>] :
        e \in {"approved", "rejected"}, c \in {"clear", "unknown"}}

\* the keys of a timed result
QualityItems ==
    {[NoItems EXCEPT !.confidence_score = c, !.execution_time_ms = t] :
        c \in Opt({69, 70}), t \in Opt({300000, 300001})}

\* the attributes the quality gates read
ResultAttrs ==
    [confidence_score : Opt({69, 70, 80, 150}),
     execution_time_ms : Opt({0, 150000, 300000, 300001})]

\* a result is a mapping with keys, or an object without get()
AIResults ==
    {[mapping |-> TRUE, items |-> i, attrs |-> a] :
        i \in TrendItems \cup ContentItems \cup QualityItems,
        a \in ResultAttrs}
    \cup {[mapping |-> FALSE, items |-> NoItems, attrs |-> a] :
            a \in ResultAttrs}

RuleSetNames == {"trend_validation", "content_safety", "quality_standards"}
RuleSetArgs == RuleSetNames \cup {"seasonal_rules"}

\* self.rules.get(rule_set, {}): the thresholds of the rule set
Rules(cfg, name) ==
    IF name = "trend_validation"
    THEN {"min_opportunity_score", "min_audience_confidence",
          "min_profit_margin"}
    ELSE IF name = "content_safety"
    THEN {"ethical_standards", "copyright_compliance", "platform_policies"}
    ELSE IF name = "quality_standards"
    THEN {"min_confidence_score", "max_execution_time"}
    ELSE {}

\* the violations a check appends
Breach(cond, violation) == IF cond THEN <<violation>> ELSE <<>>

\* validation_result before any rule set ran
DefaultValidation_Fails == [passed |-> FALSE, violations |-> <<>>, score |-> 0]
DefaultValidation == [passed |-> TRUE, violations |-> <<>>, score |-> 0]

\* one point per violation
TrendScore_OnePoint(n) == Max(0, Points(100) - n * Points(10))
\* max(0.0, 10.0 - len(violations) * 2.0)
TrendScore(n) == Max(0, Points(100) - n * Points(20))

ValidateTrendData(trend_data, cfg) ==
    LET violations ==
            Breach(Get(trend_data.opportunity_score, 0)
                       < cfg.min_opportunity_score, "opportunity_score")
            \o Breach(Get(trend_data.confidence_level, 0)
                          < cfg.min_audience_confidence, "confidence_level")
    IN [passed |-> Len(violations) = 0,
        violations |-> violations,
        score |-> TrendScore(Len(violations))]

ValidateContentSafety(content) ==
    LET ethical == Get(content.ethical_status, "") # "approved"
        copyright == Get(content.copyright_status, "") # "clear"
        violations == Breach(ethical, "ethical_status")
                      \o Breach(copyright, "copyright_status")
        score == Points(100) - (IF ethical THEN Points(50) ELSE 0)
                             - (IF copyright THEN Points(30) ELSE 0)
    IN [passed |-> Len(violations) = 0,
        violations |-> violations,
        score |-> Max(0, score)]

ValidateQualityStandards(result, cfg) ==
    LET low == Get(result.confidence_score, 0) < 70
        slow == Get(result.execution_time_ms, 0)
                    > cfg.max_execution_time * 1000
        violations == Breach(low, "confidence_score")
                      \o Breach(slow, "execution_time_ms")
        score == Points(100) - (IF low THEN Points(30) ELSE 0)
                             - (IF slow THEN Points(20) ELSE 0)
    IN [passed |-> Len(violations) = 0,
        violations |-> violations,
        score |-> Max(0, score)]

\* the validators call get() on the result
ValidateRaisesOn(result, name) == name \in RuleSetNames /\ ~result.mapping

ValidateResult(result, name, cfg) ==
    IF name = "trend_validation" THEN ValidateTrendData(result.items, cfg)
    ELSE IF name = "content_safety" THEN ValidateContentSafety(result.items)
    ELSE IF name = "quality_standards"
    THEN ValidateQualityStandards(result.items, cfg)
    ELSE DefaultValidation

GateThreshold == Points(70)

BusinessRulesGate(validation) ==
    [passed |-> validation.passed, score |-> validation.score,
     threshold |-> GateThreshold]

\* above the threshold only
ConfidenceGate_Strict(result) ==
    LET confidence_score == Points(Get(result.attrs.confidence_score, 0))
    IN [passed |-> confidence_score > Points(70),
        score |-> confidence_score,
        threshold |-> GateThreshold]

ConfidenceGate(result) ==
    LET confidence_score == Points(Get(result.attrs.confidence_score, 0))
    IN [passed |-> confidence_score >= Points(70),
        score |-> confidence_score,
        threshold |-> GateThreshold]

ExecutionTimeGate(result, cfg) ==
    LET execution_time == Get(result.attrs.execution_time_ms, 0)
    IN [passed |-> execution_time <= cfg.max_execution_time * 1000,
        score |-> Max(0, Points(100) - execution_time),
        threshold |-> GateThreshold]

QualityGates(result, validation, cfg) ==
    [business_rules |-> BusinessRulesGate(validation),
     confidence |-> ConfidenceGate(result),
     execution_time |-> ExecutionTimeGate(result, cfg)]

NoGates == [g \in {} |-> DefaultValidation]

\* validate(ai_result, rule_set) returns
Validate ==
    /\ e_pc = "input"
    /\ ~ValidateRaisesOn(ai_result, rule_set)
    /\ validation_result' = ValidateResult(ai_result, rule_set, config)
    /\ e_pc' = "validated"
    /\ UNCHANGED <<config, ai_result, rule_set, quality_gates>>
    /\ UNCHANGED eval_frame

\* validate(ai_result, rule_set) raises AttributeError
ValidateRaises ==
    /\ e_pc = "input"
    /\ ValidateRaisesOn(ai_result, rule_set)
    /\ e_pc' = "raised"
    /\ UNCHANGED <<config, ai_result, rule_set, validation_result,
                   quality_gates>>
    /\ UNCHANGED eval_frame

\* _apply_quality_gates(ai_result, validation_result)
ApplyQualityGates ==
    /\ e_pc = "validated"
    /\ quality_gates' = QualityGates(ai_result, validation_result, config)
    /\ e_pc' = "gated"
    /\ UNCHANGED <<config, ai_result, rule_set, validation_result>>
    /\ UNCHANGED eval_frame

EvalNext ==
    \/ Validate
    \/ ValidateRaises
    \/ ApplyQualityGates

EvalInit(cfgs, inputs, names) ==
    /\ config \in cfgs
    /\ ai_result \in inputs
    /\ rule_set \in names
    /\ e_pc = "input"
    /\ validation_result = DefaultValidation
    /\ quality_gates = NoGates

\* rules and gates that are not called
EvalIdle ==
    EvalInit({CHOOSE c \in Configs : TRUE},
             {CHOOSE r \in AIResults : TRUE},
             {"trend_validation"})

\* ------------------------------------- one process_hybrid_task call, in full
\* the mean of 4 or 5 scores is counted in units of 1/MeanUnit of a score unit
MeanUnit == 4 * 5

SumOf(scores) ==
    LET RECURSIVE Sum(_)
        Sum(i) == IF i = 0 THEN 0 ELSE scores[i] + Sum(i - 1)
    IN Sum(Len(scores))

\* the validation score is left out
CalculateConfidenceScore_NoValidation(result, validation, gates) ==
    LET scores ==
            (IF result.attrs.confidence_score # <<>>
             THEN <<Points(result.attrs.confidence_score[1])>> ELSE <<>>)
            \o <<gates.business_rules.score,
                 gates.confidence.score,
                 gates.execution_time.score>>
    IN (SumOf(scores) * MeanUnit) \div Len(scores)

\* sum(scores) / len(scores)
CalculateConfidenceScore(result, validation, gates) ==
    LET scores ==
            (IF result.attrs.confidence_score # <<>>
             THEN <<Points(result.attrs.confidence_score[1])>> ELSE <<>>)
            \o <<validation.score>>
            \o <<gates.business_rules.score,
                 gates.confidence.score,
                 gates.execution_time.score>>
    IN (SumOf(scores) * MeanUnit) \div Len(scores)

\* usage_metadata of the result: <<>> when the result has no such attribute
UsageMetadata == Opt({0, 300000})

NoHybridResult ==
    [confidence_score |-> 0, usage_metadata |-> <<>>,
     ai_analysis |-> CHOOSE r \in AIResults : TRUE,
     model_used |-> "none", quality_gates |-> NoGates]

HybridResult(result, validation, gates, usage, model) ==
    [confidence_score |-> CalculateConfidenceScore(result, validation, gates),
     usage_metadata |-> usage,
     ai_analysis |-> result,
     model_used |-> model,
     quality_gates |-> gates]

\* steps 1-3 up to the await: select_model, then _execute_ai_analysis is called
ProcessTask ==
    /\ h_pc = "start"
    /\ \E k \in TaskKinds : SelectCall(k.complexity, k.thinking)
    /\ model_type' = selected'
    /\ inference_calls' = inference_calls + 1
    /\ h_pc' = "analysis"
    /\ UNCHANGED hybrid_result
    /\ UNCHANGED eval_vars
    /\ UNCHANGED proc_frame

\* _execute_ai_analysis returns a result
AnalysisReturns ==
    /\ h_pc = "analysis"
    /\ ai_result' \in AIResults
    /\ e_pc' = "input"
    /\ h_pc' = "scoring"
    /\ UNCHANGED <<config, rule_set, validation_result, quality_gates>>
    /\ UNCHANGED <<inference_calls, model_type, hybrid_result>>
    /\ UNCHANGED sel_vars
    /\ UNCHANGED proc_frame

\* _execute_ai_analysis raises: logged and re-raised
AnalysisRaises ==
    /\ h_pc = "analysis"
    /\ h_pc' = "raised"
    /\ UNCHANGED <<inference_calls, model_type, hybrid_result>>
    /\ UNCHANGED eval_vars
    /\ UNCHANGED sel_vars
    /\ UNCHANGED proc_frame

\* validate raised: logged and re-raised
ValidationRaises ==
    /\ h_pc = "scoring"
    /\ e_pc = "raised"
    /\ h_pc' = "raised"
    /\ UNCHANGED <<inference_calls, model_type, hybrid_result>>
    /\ UNCHANGED eval_vars
    /\ UNCHANGED sel_vars
    /\ UNCHANGED proc_frame

\* step 6 and the return: the confidence score, record_usage when the result
\* has usage_metadata, and the HybridResult
ReturnResult ==
    /\ h_pc = "scoring"
    /\ e_pc = "gated"
    /\ \E usage \in UsageMetadata :
         /\ IF usage # <<>>
            THEN RecordCall(model_type, usage[1])
            ELSE UNCHANGED sel_vars
         /\ hybrid_result' = HybridResult(ai_result, validation_result,
                                          quality_gates, usage, model_type)
    /\ h_pc' = "returned"
    /\ UNCHANGED <<inference_calls, model_type>>
    /\ UNCHANGED eval_vars
    /\ UNCHANGED proc_frame

ProcNext ==
    \/ ProcessTask
    \/ AnalysisReturns
    \/ AnalysisRaises
    \/ Validate
    \/ ValidateRaises
    \/ ValidationRaises
    \/ ApplyQualityGates
    \/ ReturnResult

ProcInit(pos) ==
    /\ h_pc = pos
    /\ inference_calls = 0
    /\ model_type = "none"
    /\ hybrid_result = NoHybridResult

\* no process_hybrid_task call
ProcIdle == ProcInit("idle")

\* ---------------------------------------------------------- specifications
vars == <<res_vars, pipe_vars, sel_vars, task_vars, eval_vars, proc_vars>>

\* a budget manager that is not called
SelIdle == SelInit({CHOOSE b \in ThinkingBudgets : TRUE})

\* one job alone
Init ==
    /\ ResInit({"j1"}, MaxRetriesBound)
    /\ PipeInit
    /\ SelIdle
    /\ TaskInit
    /\ EvalIdle
    /\ ProcIdle
Next == ResNext
Spec == Init /\ [][Next]_vars

\* two jobs as tasks of one event loop
ConcInit ==
    /\ ResInit(Jobs, MaxConcRetries)
    /\ PipeInit
    /\ SelIdle
    /\ TaskInit
    /\ EvalIdle
    /\ ProcIdle
SpecConc == ConcInit /\ [][Next]_vars

\* one run of the pipeline
InitPipe ==
    /\ ResInit({}, 0)
    /\ PipeInit
    /\ SelIdle
    /\ TaskInit
    /\ EvalIdle
    /\ ProcIdle
SpecPipe == InitPipe /\ [][PipeNext]_vars

\* calls on one budget manager
InitSel ==
    /\ ResInit({}, 0)
    /\ PipeInit
    /\ SelInit(ThinkingBudgets)
    /\ TaskInit
    /\ EvalIdle
    /\ ProcIdle
SpecSel == InitSel /\ [][SelNext]_vars

\* concurrent process_hybrid_task calls on one agent
InitTask ==
    /\ ResInit({}, 0)
    /\ PipeInit
    /\ SelInit(ThinkingBudgets)
    /\ TaskInit
    /\ EvalIdle
    /\ ProcIdle
SpecTask == InitTask /\ [][TaskNext]_vars

\* the rules engine and the quality gates on one result
InitEval ==
    /\ ResInit({}, 0)
    /\ PipeInit
    /\ SelIdle
    /\ TaskInit
    /\ EvalInit(Configs, AIResults, RuleSetArgs)
    /\ ProcIdle
SpecEval == InitEval /\ [][EvalNext]_vars

\* one process_hybrid_task call from select_model to the return
InitProc ==
    /\ ResInit({}, 0)
    /\ PipeInit
    /\ SelIdle
    /\ TaskInit
    /\ config \in Configs
    /\ ai_result = NoHybridResult.ai_analysis
    /\ rule_set = "trend_validation"
    /\ e_pc = "await"
    /\ validation_result = DefaultValidation
    /\ quality_gates = NoGates
    /\ ProcInit("start")
SpecProc == InitProc /\ [][ProcNext]_vars

\* ------------------------------------------------------------------ claims
AllFailed(j) == \A i \in 1..Len(results[j]) : ~results[j][i]
FirstCallReturned(j) == j \in active /\ calls[j] = 1 /\ pc[j] = "returned"

\* C1: a fresh job with max_retries = N >= 1 whose unit of work fails on every
\* invocation: the unit runs exactly N times, error_history has N entries, the
\* status ends dlq with success=false, and there are exactly N-1 sleeps, the
\* k-th lasting min(2^k, 60) seconds, none after the last attempt.
C1_AlwaysFailingJob ==
    \A j \in Jobs :
        (FirstCallReturned(j) /\ job[j].max_retries >= 1 /\ AllFailed(j)) =>
            LET N == job[j].max_retries IN
            /\ Len(results[j]) = N
            /\ invoked[j] = N
            /\ Len(job[j].error_history) = N
            /\ job[j].status = "dlq"
            /\ outcome[j].kind = "returned"
            /\ outcome[j].success = FALSE
            /\ Len(sleeps[j]) = N - 1
            /\ \A k \in 1..(N - 1) :
                   sleeps[j][k] = (IF 2 ^ k <= 60 THEN 2 ^ k ELSE 60)

\* a job with max_retries = 7 has failed seven times: sleeps 2,4,8,16,32,60
C1_Witness ==
    /\ FirstCallReturned("j1") /\ AllFailed("j1")
    /\ job["j1"].max_retries = 7
    /\ Len(sleeps["j1"]) = 6
    /\ sleeps["j1"][6] = 60
    /\ job["j1"].status = "dlq"

\* C2: a fresh job whose unit of work fails k-1 times and succeeds on the k-th
\* invocation (1 <= k <= N) returns success=true, status completed,
\* current_retries = retry_count = k-1, k-1 error_history entries, and nothing
\* is handed to the DLQ sink.
C2_SucceedsOnKthAttempt ==
    \A j \in Jobs :
        (FirstCallReturned(j) /\ ~AllFailed(j)) =>
            LET k == Len(results[j]) IN
            /\ outcome[j].kind = "returned"
            /\ outcome[j].success = TRUE
            /\ job[j].status = "completed"
            /\ job[j].current_retries = k - 1
            /\ outcome[j].retry_count = k - 1
            /\ Len(job[j].error_history) = k - 1
            /\ dlq_calls[j] = 0
            /\ \A i \in 1..Len(dlq_topic) : dlq_topic[i].job_id # j

\* the unit of work succeeded on its second invocation
C2_Witness ==
    /\ FirstCallReturned("j1")
    /\ results["j1"] = <<FALSE, TRUE>>
    /\ job["j1"].current_retries = 1
    /\ job["j1"].status = "completed"

\* C3: when retries are exhausted and the DLQ sink is unavailable or its write
\* raises, the call does not raise, the job's status is dlq and the outcome
\* is the success=false outcome returned when the write succeeds.
C3_DlqWriteFailureSwallowed ==
    \A j \in Jobs :
        (pc[j] = "returned" /\ dlq_result[j] \notin {"none", "sent"}) =>
            /\ job[j].status = "dlq"
            /\ outcome[j] =
                 [kind |-> "returned", success |-> FALSE, job_id |-> j,
                  error |-> "Job failed all retries and sent to DLQ",
                  retry_count |-> job[j].max_retries, dlq_message_id |-> j]

\* the publisher exists, its publish raised, and the call has returned
C3_Witness ==
    /\ publisher
    /\ pc["j1"] = "returned"
    /\ dlq_result["j1"] = "write_failed"
    /\ job["j1"].status = "dlq"

\* C4: once a job's status is completed or dlq, no later call changes the
\* status or runs the unit of work again.
C4_TerminalStatus ==
    [][\A j \in Jobs :
          job[j].status \in {"completed", "dlq"} =>
              /\ job'[j].status = job[j].status
              /\ invoked'[j] = invoked[j]]_vars

\* C5: for every max_retries >= 0, a fresh job's status is always one of
\* pending, running, completed, dlq; it changes only pending->running,
\* running->completed, running->pending or running->dlq; and it is completed
\* or dlq when the call returns.
C5_StatusSteps ==
    \A j \in Jobs :
        (calls[j] <= 1 /\ calls'[j] <= 1 /\ job'[j].status # job[j].status) =>
            <<job[j].status, job'[j].status>> \in
                {<<"pending", "running">>, <<"running", "completed">>,
                 <<"running", "pending">>, <<"running", "dlq">>}

C5_StatusStates ==
    \A j \in Jobs :
        calls[j] <= 1 =>
            /\ job[j].status \in {"pending", "running", "completed", "dlq"}
            /\ pc[j] = "returned" => job[j].status \in {"completed", "dlq"}

C5_StateMachine == [][C5_StatusSteps]_vars /\ []C5_StatusStates

\* C6: while one job is in its backoff sleep, another job of the same process
\* that is ready to start or to finish an attempt can run.
C6_BackoffSuspendsOnlyCaller ==
    \A a \in active : \A b \in active \ {a} :
        (/\ pc[a] = "sleep"
         /\ \/ pc[b] = "awaiting"
            \/ pc[b] \in {"idle", "returned"} /\ calls[b] < MaxCalls)
        => CanRun(b)

\* C7: if stage k fails all of its maxRetries attempts, the run returns
\* success=false with the error of stage k, and no attempt of a later stage
\* is made.
C7_ExhaustedStageAborts ==
    \A k \in Stages :
        p_failures[k] = PipelineMaxRetries =>
            /\ p_pc = "done"
            /\ p_result.returned
            /\ p_result.success = FALSE
            /\ Len(p_result.errors) = 1
            /\ p_result.errors[1].stage = k
            /\ \A m \in Stages : m > k => p_attempts[m] = 0

\* generate-image (stage 4) has failed three times and the run has returned
C7_Witness ==
    /\ p_failures[4] = PipelineMaxRetries
    /\ p_attempts[4] = PipelineMaxRetries
    /\ p_pc = "done"
    /\ p_result.success = FALSE
    /\ p_result.errors[1].stage = 4

StagesInOrder == \A i \in 1..Len(p_started) : p_started[i] = i
StartsAfterSuccess(k) == p_attempts[k + 1] > 0 => p_outputs[k] # NoValue
ReceivesOutput(k) ==
    p_attempts[k + 1] > 0 =>
        /\ k \in DOMAIN p_inputs[k + 1]
        /\ p_inputs[k + 1][k] = p_outputs[k]
OneAtATime == Cardinality(p_inflight) <= 1

\* C8 as stated: the stages start in the fixed order, stage k+1 starts only
\* after stage k has succeeded and receives its output, and no two stages or
\* attempts are in progress together.
C8_EveryStageFeedsTheNext ==
    /\ StagesInOrder
    /\ \A k \in 1..6 : StartsAfterSuccess(k) /\ ReceivesOutput(k)
    /\ OneAtATime

\* C8 amended: the stages start in the fixed order, stage k+1 starts only
\* after stage k has succeeded, no two stages or attempts are in progress
\* together, and every stage receives the output of the stage before it
\* except generate-marketing-copy: the image URL of generate-image goes to
\* publish-product and log-results instead.
C8_SequentialStages ==
    /\ StagesInOrder
    /\ \A k \in 1..6 : StartsAfterSuccess(k)
    /\ \A k \in {1, 2, 3, 5, 6} : ReceivesOutput(k)
    /\ p_attempts[5] > 0 => 4 \notin DOMAIN p_inputs[5]
    /\ \A m \in {6, 7} :
           p_attempts[m] > 0 =>
               4 \in DOMAIN p_inputs[m] /\ p_inputs[m][4] = p_outputs[4]
    /\ OneAtATime

\* log-results is running with the outputs of the six stages before it
C8_Witness ==
    /\ p_pc = "running"
    /\ p_stage = 7
    /\ p_started = <<1, 2, 3, 4, 5, 6, 7>>
    /\ p_inflight = {<<7, 0>>}
    /\ p_inputs[6][5] = p_outputs[5]
    /\ p_outputs[4].attempt = 2

SleepsOf(k) == Cardinality({i \in 1..Len(p_sleeps) : p_sleeps[i][1] = k})
SameDelay == \A i, j \in 1..Len(p_sleeps) : p_sleeps[i][2] = p_sleeps[j][2]
\* at the end of a run, stage k was retried after each failure until it
\* succeeded or had made maxRetries attempts, with a delay before each retry
RetriedToTheLimit(k) ==
    /\ p_attempts[k] <= PipelineMaxRetries
    /\ p_pc = "done" =>
          /\ (p_failures[k] > 0 /\ p_outputs[k] = NoValue) =>
                 p_attempts[k] = PipelineMaxRetries
          /\ SleepsOf(k) = Max(p_attempts[k] - 1, 0)

Below90(m) == current_usage[m] * 10 < daily_budgets[m] * 9
\* the tier the selection rule of C10 names, on the usage the ledger holds
\* once the call has made any reset that was due
RuleTier(c, t, deepBelow90, standardBelow90) ==
    IF t /\ c >= Strategic /\ deepBelow90 THEN Thinking
    ELSE IF c >= Standard /\ standardBelow90 THEN FlashLite25
    ELSE FlashLite20

\* C10: for every complexity, flag and budget state, select returns
\* deep-reasoning iff it is requested, complexity >= strategic and the tier is
\* below 90% of its budget; otherwise standard iff complexity >= standard and
\* that tier is below 90%; otherwise lite. select(basic, false) is always
\* lite, and every call returns a tier.
C10_SelectRule ==
    [][\A c \in Complexities, t \in BOOLEAN :
          Select(c, t) =>
              /\ selected' = RuleTier(c, t, Below90(Thinking)',
                                      Below90(FlashLite25)')
              /\ selected' \in Models
              /\ (c = Basic /\ ~t) => selected' = FlashLite20]_vars

\* a critical task asking for deep reasoning was given lite: the thinking
\* tier is over 90% and the standard tier exactly at 90% of its budget
C10_Witness ==
    /\ sel_args = [complexity |-> Critical, thinking |-> TRUE]
    /\ selected = FlashLite20
    /\ ~Below90(Thinking)
    /\ current_usage[FlashLite25] * 10 = daily_budgets[FlashLite25] * 9
    /\ daily_reset_time = 0

\* C11: after any sequence of select and recordUsage calls, select never
\* returns the deep-reasoning or the standard tier while that tier's usage is
\* at or above 90% of its daily budget.
C11_NeverOverThreshold ==
    [][\A c \in Complexities, t \in BOOLEAN :
          (Select(c, t) /\ selected' \in {Thinking, FlashLite25}) =>
              current_usage'[selected'] * 10 < daily_budgets[selected'] * 9]_vars

\* deep reasoning was asked for a critical task and the standard tier was
\* returned: the thinking tier is over 90%, the standard tier under it
C11_Witness ==
    /\ sel_args = [complexity |-> Critical, thinking |-> TRUE]
    /\ selected = FlashLite25
    /\ current_usage[Thinking] * 10 >= daily_budgets[Thinking] * 9
    /\ current_usage[FlashLite25] = 600000

\* C12: recordUsage never decreases a usage counter, for every tier and every
\* units value a unit of work reports.
C12_RecordNeverDecreases ==
    [][\A m \in Models, u \in TokenAmounts :
          RecordUsage(m, u) =>
              \A n \in Models : current_usage'[n] >= current_usage[n]]_vars

\* usage recorded twice on one tier and once on another, no reset yet
C12_Witness ==
    /\ current_usage[FlashLite25] = 900000
    /\ current_usage[Thinking] = 300000
    /\ daily_reset_time = 0
    /\ selected = "none"

SomeSelect == \E c \in Complexities, t \in BOOLEAN : Select(c, t)
UsageDrops(m) == current_usage'[m] < current_usage[m]

C14_RecordResetsFirst ==
    [][\A m \in Models, u \in TokenAmounts :
          (RecordUsage(m, u) /\ now - daily_reset_time > DaySeconds) =>
              /\ current_usage'[m] = u
              /\ daily_reset_time' = now]_vars

Gated == {Thinking, FlashLite25}
LargestAllocation == CHOOSE u \in TokenAmounts : \A v \in TokenAmounts : v <= u

\* C15 as stated: with concurrent processTask calls, a budget-gated tier's
\* usage never exceeds its daily budget by more than the units of one
\* in-flight allocation.
C15_OneAllocationOver ==
    \A m \in Gated :
        current_usage[m] <= daily_budgets[m] + LargestAllocation

\* C15 amended: once a gated tier's usage has reached 90% of its budget, only
\* the calls that were already in flight add to it: at most one allocation per
\* concurrent caller, and without their units the usage is below 90%.
C15_InFlightAllocationsOver ==
    \A m \in Gated :
        /\ over_n[m] <= Cardinality(Tasks)
        /\ over_n[m] > 0 =>
              (current_usage[m] - over_units[m]) * 10 < daily_budgets[m] * 9

\* two callers selected the thinking tier before either recorded: its usage
\* is more than one allocation over the budget
C15_Witness ==
    /\ over_n[Thinking] = 2
    /\ current_usage[Thinking] > daily_budgets[Thinking] + LargestAllocation
    /\ t_runs = [t \in Tasks |-> 1]

RECURSIVE LoggedUnits(_, _)
LoggedUnits(m, S) ==
    IF S = {} THEN 0
    ELSE LET u == CHOOSE x \in S : TRUE
         IN rec_log[m][u] * u + LoggedUnits(m, S \ {u})

\* C16: under any interleaving of concurrent processTask calls, each tier's
\* usage counter equals the sum of the units passed to recordUsage for that
\* tier since the last reset.
C16_CountersMatchRecords ==
    \A m \in Models : current_usage[m] = LoggedUnits(m, TokenAmounts)

\* both callers have recorded different amounts on the standard tier, and one
\* of them is in its second call
C16_Witness ==
    /\ t_pc["t1"] = "inference" /\ t_runs["t1"] = 2 /\ t_runs["t2"] = 1
    /\ rec_log[FlashLite25][300000] = 1
    /\ rec_log[FlashLite25][600000] = 1
    /\ current_usage[FlashLite25] = 900000

Validated == e_pc \in {"validated", "gated"}

\* C17: under trend_validation, validate returns score = max(0, 10 - 2n) for
\* the n violations it lists, and passed is true iff n = 0.
C17_TrendScoreFromViolations ==
    (Validated /\ rule_set = "trend_validation") =>
        LET n == Len(validation_result.violations) IN
          /\ validation_result.score = Max(0, Points(100) - 2 * n * Points(10))
          /\ validation_result.passed <=> n = 0

\* a trend analysis below both checked minima: two violations, 6 points
C17_Witness ==
    /\ e_pc = "validated"
    /\ rule_set = "trend_validation"
    /\ Len(validation_result.violations) = 2
    /\ validation_result.score = Points(60)
    /\ ~validation_result.passed

\* the result is below the threshold
Breached(threshold) ==
    LET items == ai_result.items IN
    CASE threshold = "min_opportunity_score" ->
            Get(items.opportunity_score, 0) < config.min_opportunity_score
      [] threshold = "min_audience_confidence" ->
            Get(items.confidence_level, 0) < config.min_audience_confidence
      [] threshold = "min_profit_margin" ->
            /\ items.profit_margin # <<>>
            /\ items.profit_margin[1] < config.min_profit_margin

\* the violation that reports the threshold
ViolationOf(threshold) ==
    CASE threshold = "min_opportunity_score" -> "opportunity_score"
      [] threshold = "min_audience_confidence" -> "confidence_level"
      [] threshold = "min_profit_margin" -> "profit_margin"

Count(seq, x) == Cardinality({i \in DOMAIN seq : seq[i] = x})

\* C18: under trend_validation, validate lists exactly one violation for each
\* threshold of the rule set that the result breaches (opportunity score,
\* confidence, profit margin) and none for a threshold the result meets.
C18_OneViolationPerBreach ==
    (Validated /\ rule_set = "trend_validation") =>
        \A threshold \in Rules(config, "trend_validation") :
            Count(validation_result.violations, ViolationOf(threshold))
                = IF Breached(threshold) THEN 1 ELSE 0

\* C19: validate with a rule-set name that is not defined returns passed=true
\* with no violations for every result, and raises no error.
C19_UnknownRuleSetPasses ==
    rule_set \notin RuleSetNames =>
        /\ e_pc # "raised"
        /\ e_pc = "input" => ENABLED Validate
        /\ Validated => /\ validation_result.passed
                        /\ validation_result.violations = <<>>

\* an object without get(), on which the known rule sets raise, passes
C19_Witness ==
    /\ e_pc = "validated"
    /\ rule_set \notin RuleSetNames
    /\ ~ai_result.mapping
    /\ validation_result.passed
    /\ validation_result.violations = <<>>

\* C20: the quality gates are exactly business_rules, confidence and
\* execution_time: business_rules copies passed and score from the validation
\* result with threshold 7.0, confidence passes iff the confidence score is at
\* least 7.0, execution_time passes iff the execution time in ms is at most
\* max_execution_time * 1000.
C20_ThreeGates ==
    e_pc = "gated" =>
        /\ DOMAIN quality_gates
              = {"business_rules", "confidence", "execution_time"}
        /\ quality_gates.business_rules.passed = validation_result.passed
        /\ quality_gates.business_rules.score = validation_result.score
        /\ quality_gates.business_rules.threshold = 7 * ScoreUnit
        /\ quality_gates.confidence.passed
              <=> Get(ai_result.attrs.confidence_score, 0) >= 70
        /\ quality_gates.execution_time.passed
              <=> Get(ai_result.attrs.execution_time_ms, 0)
                      <= config.max_execution_time * 1000

\* a failed validation, a confidence of exactly 7.0 and an execution time of
\* exactly the limit: the last two gates pass
C20_Witness ==
    /\ e_pc = "gated"
    /\ ~validation_result.passed
    /\ ~quality_gates.business_rules.passed
    /\ ai_result.attrs.confidence_score = <<70>>
    /\ quality_gates.confidence.passed
    /\ ai_result.attrs.execution_time_ms = <<300000>>
    /\ quality_gates.execution_time.passed

\* C21: the execution_time gate's score is the full 10 for every execution
\* time at or under max_execution_time * 1000 ms, goes down only as the time
\* grows past that limit, and is never below 0.
C21_FullScoreUpToTheLimit ==
    e_pc = "gated" =>
        LET execution_time == Get(ai_result.attrs.execution_time_ms, 0)
            limit == config.max_execution_time * 1000
            score == quality_gates.execution_time.score
        IN /\ execution_time <= limit => score = Points(100)
           /\ execution_time > limit => score < Points(100)
           /\ score >= 0

\* the scores the aggregate is taken over, for a result with a confidence
FiveScores ==
    <<Points(Get(ai_result.attrs.confidence_score, 0)),
      validation_result.score,
      quality_gates.business_rules.score,
      quality_gates.confidence.score,
      quality_gates.execution_time.score>>

\* confidence 8.0, a passing validation of score 10.0, time under the limit
SpecExample ==
    /\ ai_result.attrs.confidence_score = <<80>>
    /\ validation_result.passed
    /\ validation_result.score = Points(100)
    /\ Get(ai_result.attrs.execution_time_ms, 0)
          <= config.max_execution_time * 1000

\* C22 as stated: the confidence of the returned result is the mean of exactly
\* five scores (the self-reported confidence, the validation score and the
\* three gate scores), and it is 9.6 for confidence 8.0, a passing validation
\* of score 10.0 and an execution time under the limit.
C22_MeanOfFiveIs96 ==
    h_pc = "returned" =>
        /\ hybrid_result.confidence_score * 5 = SumOf(FiveScores) * MeanUnit
        /\ SpecExample => hybrid_result.confidence_score = Points(96) * MeanUnit

\* C22 amended: the confidence is the mean of the validation score, the three
\* gate scores and, when the result has a confidence score, that score (five
\* scores, four without it); the confidence gate's score is the confidence
\* itself, so the example gives at most 9.2, reached at an execution time of 0.
C22_MeanOfPresentScores ==
    h_pc = "returned" =>
        LET n == IF ai_result.attrs.confidence_score = <<>> THEN 4 ELSE 5 IN
          /\ hybrid_result.confidence_score * n = SumOf(FiveScores) * MeanUnit
          /\ SpecExample =>
               /\ hybrid_result.confidence_score <= Points(92) * MeanUnit
               /\ hybrid_result.confidence_score = Points(92) * MeanUnit
                    <=> Get(ai_result.attrs.execution_time_ms, 0) = 0

\* the spec's example at an execution time of 0: 9.2
C22_Witness ==
    /\ h_pc = "returned"
    /\ SpecExample
    /\ ai_result.attrs.execution_time_ms = <<0>>
    /\ hybrid_result.confidence_score = Points(92) * MeanUnit

\* C23: when the validator reports violations, process_hybrid_task makes the
\* inference call exactly once, does not raise, and returns a result that is
\* marked failed and carries the validator's violations.
C23_FailedResultWithViolations ==
    (h_pc \in {"scoring", "returned", "raised"}
        /\ Validated /\ validation_result.violations # <<>>) =>
        /\ inference_calls = 1
        /\ h_pc # "raised"
        /\ h_pc = "returned" =>
              /\ ~hybrid_result.quality_gates.business_rules.passed
              /\ "violations" \in DOMAIN hybrid_result
              /\ hybrid_result.violations = validation_result.violations

\* C27: every result returned by process_hybrid_task has a confidence score
\* within [0, 10].
C27_ConfidenceWithinRange ==
    h_pc = "returned" =>
        /\ hybrid_result.confidence_score >= 0
        /\ hybrid_result.confidence_score <= Points(100) * MeanUnit

\* C30: for each of the three gates, passed is true exactly when the gate's
\* score is at least the gate's threshold.
C30_PassedIffScoreAtThreshold ==
    e_pc = "gated" =>
        \A g \in DOMAIN quality_gates :
            quality_gates[g].passed
                <=> quality_gates[g].score >= quality_gates[g].threshold

\* the attempt fields of a history are 1, 2, ... in order
InAttemptOrder(history) == \A k \in 1..Len(history) : history[k].attempt = k

\* C24: the record handed to the DLQ sink carries the job's job_id, a
\* retry_count equal to the job's current_retries (= max_retries) and the full
\* error_history in attempt order, and serializing and deserializing it
\* preserves these three fields.
C24_DeadLetterRecordRoundTrip ==
    /\ Len(dlq_data) = Len(dlq_topic)
    /\ \A i \in 1..Len(dlq_topic) :
         LET record == dlq_topic[i]
             back == JsonLoads(dlq_data[i])
             j == record.job_id
         IN /\ j \in active
            /\ record.retry_count = job[j].current_retries
            /\ record.retry_count = job[j].max_retries
            /\ record.error_history = job[j].error_history
            /\ Len(record.error_history) = record.retry_count
            /\ InAttemptOrder(record.error_history)
            /\ back.job_id = record.job_id
            /\ back.retry_count = record.retry_count
            /\ back.error_history = record.error_history

\* a job of three retries whose attempts failed in different ways was parked
C24_Witness ==
    /\ Len(dlq_data) = 1
    /\ JsonLoads(dlq_data[1]).retry_count = 3
    /\ JsonLoads(dlq_data[1]).error_history
          = <<[attempt |-> 1, error |-> "timeout"],
              [attempt |-> 2, error |-> "bad_output"],
              [attempt |-> 3, error |-> "timeout"]>>
    /\ job["j1"].status = "dlq"

RecordsOf(j) == {i \in 1..Len(dlq_topic) : dlq_topic[i].job_id = j}

\* C26: over any sequence of execute_with_resilience calls the DLQ sink is
\* handed at most one record per job, and only at the moment the job's
\* current_retries reaches max_retries after a failed attempt; a completed job
\* has none.
C26_AtMostOneDeadLetter ==
    /\ [](\A j \in Jobs :
            /\ Cardinality(RecordsOf(j)) <= 1
            /\ job[j].status = "completed" => RecordsOf(j) = {})
    /\ [][dlq_topic' # dlq_topic =>
            \E j \in Jobs :
                /\ dlq_topic' = Append(dlq_topic, dlq_topic'[Len(dlq_topic')])
                /\ dlq_topic'[Len(dlq_topic')].job_id = j
                /\ pc[j] = "dlq"
                /\ results[j] # <<>> /\ ~results[j][Len(results[j])]
                /\ job[j].current_retries = job[j].max_retries]_vars

\* the job was parked by its first call and a second call has returned
C26_Witness ==
    /\ calls["j1"] = 2
    /\ pc["j1"] = "returned"
    /\ Cardinality(RecordsOf("j1")) = 1
    /\ job["j1"].status = "failed"

\* C28: on a fresh job, 0 <= current_retries <= max_retries at every point,
\* error_history has exactly current_retries entries with attempt fields
\* 1, 2, ... in order, and the unit of work never runs when
\* current_retries >= max_retries.
C28_RetryCounterAndHistory ==
    \A j \in Jobs :
        /\ 0 <= job[j].current_retries
        /\ job[j].current_retries <= job[j].max_retries
        /\ Len(job[j].error_history) = job[j].current_retries
        /\ InAttemptOrder(job[j].error_history)
        /\ pc[j] = "awaiting" => job[j].current_retries < job[j].max_retries

\* the unit of work runs for the last time after two recorded failures
C28_Witness ==
    /\ pc["j1"] = "awaiting"
    /\ job["j1"].max_retries = 3
    /\ job["j1"].current_retries = 2
    /\ Len(job["j1"].error_history) = 2

\* the stage gave up: all attempts of a retried stage failed, or the single
\* attempt of the log stage did
StageFailed(k) ==
    IF k = 7 THEN p_failures[k] > 0 ELSE p_failures[k] = PipelineMaxRetries

\* C25: no failure of a pipeline stage is silently dropped: each one is
\* reflected in the result run_autonomous_workflow returns (the only failure
\* caught without affecting an outcome is a DLQ write failure).
C25_StageFailureInResult ==
    p_result.returned =>
        \A k \in Stages :
            StageFailed(k) =>
                /\ ~p_result.success
                /\ \E i \in 1..Len(p_result.errors) :
                      p_result.errors[i].stage = k

\* C29: a run that returns success=false made no publish call that succeeded;
\* a published listing is left behind only by a run that returns success=true
\* with that listing's id.
C29_NoPublishWithoutSuccess ==
    /\ (p_result.returned /\ ~p_result.success) => p_published = {}
    /\ p_published # {} =>
          /\ p_pc = "done" => p_result.returned /\ p_result.success
          /\ p_result.returned => p_published = {p_result.published_product_id}

\* the listing went out on the third publish attempt, logging failed, and the
\* run returned success with the listing's id
C29_Witness ==
    /\ p_result.returned
    /\ p_result.success
    /\ p_failures[6] = 2
    /\ p_failures[7] = 1
    /\ p_published = {[stage |-> 6, attempt |-> 3]}
    /\ p_result.published_product_id = [stage |-> 6, attempt |-> 3]

====
